---- MODULE Spec2Model ----
(***************************************************************************)
(* School complaint system (src/app.py): the complaint lifecycle engine    *)
(* (ComplaintSystem), the account and authorization engine (AuthSystem)    *)
(* and the persistence gateway (FirebaseManager), run by several browser   *)
(* sessions.  Each session owns its st.session_state (the in-memory        *)
(* tables); all sessions share one Firestore database.                     *)
(*                                                                         *)
(* Strings of the source are written in ASCII:                             *)
(*   status  '대기중' = "pending", '처리중' = "in_progress", '완료' = "resolved" *)
(*   urgency '긴급' = "urgent", '보통' = "normal"                            *)
(*   note    '민원 등록됨' = "complaint created",                           *)
(*           '상태 변경: <s>' = "status changed: <s>"                       *)
(* A python dict is a function on its key set; the order of its items is   *)
(* not modelled (no operation modelled here reads it).  The heap           *)
(* complaint_queue and the list processing_stack are left out: the queue   *)
(* is only pushed to and never read, the stack is never pushed to, so its  *)
(* remove() in update_complaint_status (src/app.py:345-346) never runs.    *)
(* The deployment modelled is the one whose Firestore client exists        *)
(* (get_db() is not None); a single read or write may still raise.         *)
(***************************************************************************)
EXTENDS Integers, Sequences, FiniteSets, TLC

\* Bound of the model: the number of datetime.now() stamps handed out.
MaxClock == 3

Sessions == {"s1", "s2"}
None == "None"
\* st.session_state.current_user = None
NoUser == [id |-> None, name |-> None, role |-> None]

\* ---------------------------------------------------------------- inputs
Statuses == {"pending", "in_progress", "resolved"}
\* A new_status only a direct caller can pass: the selectbox of
\* render_complaint_details (src/app.py:772-777) offers the three statuses alone.
OtherStatusInputs == {"bogus"}
NoteInputs == {"", "memo"}
\* Keys of COMPLAINT_CATEGORIES the model draws from.
COMPLAINT_CATEGORIES == {"academic", "meal", "health"}
\* The submissions the model draws from: <<title, content, category, urgency, user_id>>.
CreateInputs ==
    { <<"t1", "c1", "academic", "urgent", "kim">>,
      <<"t2", "c2", "meal", "normal", "lee">> }
\* Student names given to add_student_to_registry and to signup_parent, and
\* teacher ids given to signup_teacher_with_code.
StudentInputs == {"park"}
ParentInputs == {"kim", "lee", "park"}
TeacherIdInputs == {"admin", "lee"}
\* User identifiers.
Ids == ParentInputs \cup TeacherIdInputs
\* Passwords: the administrator's (src/app.py:378) and the one signups use.
SignupPassword == "pw1"
\* Logins tried: the administrator's password, a wrong one, a signed-up user.
LoginInputs == { <<"admin", "admin123">>, <<"admin", SignupPassword>>,
                 <<"lee", SignupPassword>> }
TeacherName == "n1"
\* Category lists the administrator may assign to a teacher.
CategoryListInputs == {{}, {"meal", "health"}}
\* Values str(uuid.uuid4())[:8].upper() may produce.
Codes == {"X", "Y"}
\* Keys of the default student registry (src/app.py:386-392), two of the five.
DefaultRegistry == {"kim", "lee"}

\* ------------------------------------------------------------- helpers
EmptyMap == <<>>

\* d[k] = v on a python dict.
Put(d, k, v) == [x \in (DOMAIN d) \cup {k} |-> IF x = k THEN v ELSE d[x]]

\* str(n) of a small natural number, and int(s) of such a string.
Digits == <<"1", "2", "3", "4", "5", "6", "7", "8", "9">>
str(n) == Digits[n]
int(s) == CHOOSE n \in 1..Len(Digits) : Digits[n] = s

\* hashlib.sha256(password.encode()).hexdigest(): an injective digest.
hash_password(password) == "sha256:" \o password

VARIABLES
    \* Firestore: collections users, complaints; documents system/student_registry,
    \* system/teacher_codes.
    fs_users, fs_complaints, fs_registry, fs_codes,
    \* st.session_state of each session.
    started, complaints_db, complaint_counter, user_db, student_registry,
    teacher_db, teacher_codes, current_user,
    \* datetime.now(), the outcome of the last call, and the record of what
    \* was handed out: ids returned by create_complaint, codes returned by
    \* generate_teacher_code, successful signups per code.
    clock, last, returned_ids, issued_codes, code_uses

fsVars == <<fs_users, fs_complaints, fs_registry, fs_codes>>
authVars == <<user_db, student_registry, teacher_db, teacher_codes, current_user>>
complaintVars == <<complaints_db, complaint_counter>>
ghostVars == <<returned_ids, issued_codes, code_uses>>
vars == <<fs_users, fs_complaints, fs_registry, fs_codes, started, complaints_db,
          complaint_counter, user_db, student_registry, teacher_db, teacher_codes,
          current_user, clock, last, returned_ids, issued_codes, code_uses>>

\* The outcome of a call: the operation, its session, the key it was about (the
\* complaint id, the user id, the code), its success flag and the number of
\* gateway writes it attempted.
Outcome(op, s, key, ok, writes) ==
    [op |-> op, session |-> s, key |-> key, ok |-> ok, writes |-> writes]

Init ==
    /\ fs_users = EmptyMap
    /\ fs_complaints = EmptyMap
    /\ fs_registry = {}
    /\ fs_codes = {}
    /\ started = [s \in Sessions |-> FALSE]
    /\ complaints_db = [s \in Sessions |-> EmptyMap]
    /\ complaint_counter = [s \in Sessions |-> 1]
    /\ user_db = [s \in Sessions |-> EmptyMap]
    /\ student_registry = [s \in Sessions |-> {}]
    /\ teacher_db = [s \in Sessions |-> EmptyMap]
    /\ teacher_codes = [s \in Sessions |-> {}]
    /\ current_user = [s \in Sessions |-> NoUser]
    /\ clock = 0
    /\ last = Outcome("init", None, None, TRUE, 0)
    /\ returned_ids = <<>>
    /\ issued_codes = {}
    /\ code_uses = [c \in Codes |-> 0]

\* ------------------------------------------------------- session start
\* The administrator account a session builds when no user table was loaded.
DefaultAdmin ==
    [password_hash |-> hash_password("admin123"), role |-> "admin",
     name |-> "system administrator", created_at |-> clock]

\* main(): the first run of a session builds FirebaseManager, AuthSystem and
\* ComplaintSystem; both load_from_firebase run.  Each of the four reads may
\* raise, and then returns its empty value.
main(s, ru, rr, rc, rp) ==
    /\ ~started[s]
    /\ LET users == IF ru THEN fs_users ELSE EmptyMap
           registry == IF rr THEN fs_registry ELSE {}
           codes == IF rc THEN fs_codes ELSE {}
           complaints == IF rp THEN fs_complaints ELSE EmptyMap
       IN /\ user_db' = [user_db EXCEPT ![s] =
                IF DOMAIN users # {} THEN users ELSE "admin" :> DefaultAdmin]
          /\ student_registry' = [student_registry EXCEPT ![s] =
                IF registry # {} THEN registry ELSE DefaultRegistry]
          /\ teacher_codes' = [teacher_codes EXCEPT ![s] = codes]
          /\ complaints_db' = [complaints_db EXCEPT ![s] = complaints]
    /\ teacher_db' = [teacher_db EXCEPT ![s] = EmptyMap]
    /\ current_user' = [current_user EXCEPT ![s] = NoUser]
    /\ complaint_counter' = [complaint_counter EXCEPT ![s] = 1]
    /\ started' = [started EXCEPT ![s] = TRUE]
    /\ last' = Outcome("main", s, None, TRUE, 0)
    /\ UNCHANGED <<fsVars, clock, ghostVars>>

\* ---------------------------------------------------- FirebaseManager
\* save_complaint: document(complaint_id).set(complaint_data), or an exception.
save_complaint(complaint_id, complaint_data, up) ==
    IF up THEN Put(fs_complaints, complaint_id, complaint_data) ELSE fs_complaints

\* Mutant: the new entry is appended to the stored history.
update_complaint_Append(complaint_id, status, history, up) ==
    IF up /\ complaint_id \in DOMAIN fs_complaints
    THEN [fs_complaints EXCEPT ![complaint_id] =
            [@ EXCEPT !.status = status,
                      !.history = Append(@, history[Len(history)])]]
    ELSE fs_complaints

\* update_complaint: document(complaint_id).update(update_data); update() raises
\* on a document that does not exist, and the exception is swallowed.
update_complaint(complaint_id, status, history, up) ==
    IF up /\ complaint_id \in DOMAIN fs_complaints
    THEN [fs_complaints EXCEPT ![complaint_id] =
            [@ EXCEPT !.status = status, !.history = history]]
    ELSE fs_complaints

\* ---------------------------------------------------- ComplaintSystem
\* The complaint create_complaint builds.
NewComplaint(complaint_id, title, content, category, urgency, user_id) ==
    [id |-> complaint_id, title |-> title, content |-> content,
     category |-> category, urgency |-> urgency,
     urgency_value |-> IF urgency = "urgent" THEN 1 ELSE 2,
     status |-> "pending", created_by |-> user_id, created_at |-> clock,
     assigned_to |-> None,
     history |-> << [status |-> "pending", timestamp |-> clock,
                     note |-> "complaint created"] >>]

\* The id create_complaint hands out: str(st.session_state.complaint_counter).
NextComplaintId(s) == str(complaint_counter[s])

\* Mutant: a failed write aborts the operation.
create_complaint_Abort(s, title, content, category, urgency, user_id, up) ==
    /\ started[s]
    /\ clock < MaxClock
    /\ LET complaint_id == NextComplaintId(s)
           complaint == NewComplaint(complaint_id, title, content, category,
                                     urgency, user_id)
       IN IF up
          THEN /\ complaint_counter' = [complaint_counter EXCEPT ![s] = @ + 1]
               /\ complaints_db' = [complaints_db EXCEPT ![s] = Put(@, complaint_id, complaint)]
               /\ fs_complaints' = save_complaint(complaint_id, complaint, up)
               /\ returned_ids' = Append(returned_ids, complaint_id)
               /\ last' = Outcome("create_complaint", s, complaint_id, TRUE, 1)
          ELSE /\ last' = Outcome("create_complaint", s, complaint_id, FALSE, 1)
               /\ UNCHANGED <<complaint_counter, complaints_db, fs_complaints,
                              returned_ids>>
    /\ clock' = clock + 1
    /\ UNCHANGED <<fs_users, fs_registry, fs_codes, started, authVars,
                   issued_codes, code_uses>>

create_complaint(s, title, content, category, urgency, user_id, up) ==
    /\ started[s]
    /\ clock < MaxClock
    /\ LET complaint_id == NextComplaintId(s)
           complaint == NewComplaint(complaint_id, title, content, category,
                                     urgency, user_id)
       IN /\ complaint_counter' = [complaint_counter EXCEPT ![s] = @ + 1]
          /\ complaints_db' = [complaints_db EXCEPT ![s] = Put(@, complaint_id, complaint)]
          /\ fs_complaints' = save_complaint(complaint_id, complaint, up)
          /\ returned_ids' = Append(returned_ids, complaint_id)
          /\ last' = Outcome("create_complaint", s, complaint_id, TRUE, 1)
    /\ clock' = clock + 1
    /\ UNCHANGED <<fs_users, fs_registry, fs_codes, started, authVars,
                   issued_codes, code_uses>>

\* The history entry update_complaint_status appends.
HistoryEntry(new_status, note) ==
    [status |-> new_status, timestamp |-> clock,
     note |-> IF note # "" THEN note ELSE "status changed: " \o new_status]

Updated_Mutant(complaint, new_status, note) ==
    [complaint EXCEPT !.status = new_status]

\* Mutant: a resolved complaint is left as it is.
Updated_Absorbing(complaint, new_status, note) ==
    IF complaint.status = "resolved" THEN complaint
    ELSE [complaint EXCEPT !.status = new_status,
                           !.history = Append(@, HistoryEntry(new_status, note))]

\* The complaint after update_complaint_status has mutated it in place.
Updated(complaint, new_status, note) ==
    [complaint EXCEPT !.status = new_status,
                      !.history = Append(@, HistoryEntry(new_status, note))]

\* The early return of update_complaint_status on an id that is not in
\* complaints_db: False, and nothing else.
UnknownComplaint_Mutant(s, complaint_id) ==
    /\ last' = Outcome("update_complaint_status", s, complaint_id, TRUE, 1)
    /\ UNCHANGED <<fsVars, started, complaintVars, authVars, clock, ghostVars>>

UnknownComplaint(s, complaint_id) ==
    /\ last' = Outcome("update_complaint_status", s, complaint_id, FALSE, 0)
    /\ UNCHANGED <<fsVars, started, complaintVars, authVars, clock, ghostVars>>

update_complaint_status(s, complaint_id, new_status, note, up) ==
    /\ started[s]
    /\ IF complaint_id \notin DOMAIN complaints_db[s]
       THEN UnknownComplaint(s, complaint_id)
       ELSE /\ clock < MaxClock
            /\ LET complaint == Updated(complaints_db[s][complaint_id], new_status, note)
               IN /\ complaints_db' = [complaints_db EXCEPT ![s][complaint_id] = complaint]
                  /\ fs_complaints' = update_complaint(complaint_id, new_status,
                                                       complaint.history, up)
            /\ clock' = clock + 1
            /\ last' = Outcome("update_complaint_status", s, complaint_id, TRUE, 1)
            /\ UNCHANGED <<fs_users, fs_registry, fs_codes, started, complaint_counter,
                           authVars, ghostVars>>

\* ---------------------------------------------------------- AuthSystem
\* save_user: document(user_id).set(user_data), or an exception.
save_user(user_id, user_data, up) ==
    IF up THEN Put(fs_users, user_id, user_data) ELSE fs_users

\* save_teacher_codes: document('teacher_codes').set({'codes': list(codes)}).
save_teacher_codes(codes, up) == IF up THEN codes ELSE fs_codes

\* save_student_registry: document('student_registry').set({'data': registry_data}).
\* The registry is modelled by its key set: no operation reads a student's
\* grade, class, number or year.
save_student_registry(registry_data, up) == IF up THEN registry_data ELSE fs_registry

\* str(uuid.uuid4())[:8].upper(): a value not handed out before.
generate_teacher_code(s, code, up) ==
    /\ started[s]
    /\ code \notin issued_codes
    /\ teacher_codes' = [teacher_codes EXCEPT ![s] = @ \cup {code}]
    /\ fs_codes' = save_teacher_codes(teacher_codes'[s], up)
    /\ issued_codes' = issued_codes \cup {code}
    /\ last' = Outcome("generate_teacher_code", s, code, TRUE, 1)
    /\ UNCHANGED <<fs_users, fs_complaints, fs_registry, started, complaintVars,
                   user_db, student_registry, teacher_db, current_user, clock,
                   returned_ids, code_uses>>

\* The code check of signup_teacher_with_code.
CodeIsActive(s, code) == code \in teacher_codes[s]

IdExists_Mutant(s, teacher_id) == FALSE

\* The id check of signup_teacher_with_code.
IdExists(s, teacher_id) == teacher_id \in DOMAIN user_db[s]

\* The key of its outcome is the pair <<teacher_id, code>>.
signup_teacher_with_code(s, teacher_id, password, name, code, up1, up2) ==
    /\ started[s]
    /\ IF ~CodeIsActive(s, code)
       THEN /\ last' = Outcome("signup_teacher_with_code:invalid code", s,
                               <<teacher_id, code>>, FALSE, 0)
            /\ UNCHANGED <<fsVars, started, complaintVars, authVars, clock, ghostVars>>
       ELSE IF IdExists(s, teacher_id)
       THEN /\ last' = Outcome("signup_teacher_with_code:id exists", s,
                               <<teacher_id, code>>, FALSE, 0)
            /\ UNCHANGED <<fsVars, started, complaintVars, authVars, clock, ghostVars>>
       ELSE /\ clock < MaxClock
            /\ LET user_data == [password_hash |-> hash_password(password),
                                 role |-> "teacher", name |-> name,
                                 created_at |-> clock]
               IN /\ user_db' = [user_db EXCEPT ![s] = Put(@, teacher_id, user_data)]
                  /\ fs_users' = save_user(teacher_id, user_data, up1)
            /\ teacher_db' = [teacher_db EXCEPT ![s] =
                    Put(@, teacher_id, [categories |-> {}, is_master |-> FALSE])]
            /\ teacher_codes' = [teacher_codes EXCEPT ![s] = @ \ {code}]
            /\ fs_codes' = save_teacher_codes(teacher_codes'[s], up2)
            /\ clock' = clock + 1
            /\ code_uses' = [code_uses EXCEPT ![code] = @ + 1]
            /\ last' = Outcome("signup_teacher_with_code", s, <<teacher_id, code>>, TRUE, 2)
            /\ UNCHANGED <<fs_complaints, fs_registry, started, complaintVars,
                           student_registry, current_user, returned_ids, issued_codes>>

add_student_to_registry(s, student_name, up) ==
    /\ started[s]
    /\ IF student_name \in student_registry[s]
       THEN /\ last' = Outcome("add_student_to_registry", s, student_name, FALSE, 0)
            /\ UNCHANGED <<fsVars, started, complaintVars, authVars, clock, ghostVars>>
       ELSE /\ student_registry' = [student_registry EXCEPT ![s] = @ \cup {student_name}]
            /\ fs_registry' = save_student_registry(student_registry'[s], up)
            /\ last' = Outcome("add_student_to_registry", s, student_name, TRUE, 1)
            /\ UNCHANGED <<fs_users, fs_complaints, fs_codes, started, complaintVars,
                           user_db, teacher_db, teacher_codes, current_user, clock,
                           ghostVars>>

IsRegistered_Mutant(s, student_name) == TRUE

\* The registry check of signup_parent.
IsRegistered(s, student_name) == student_name \in student_registry[s]

signup_parent(s, student_name, password, up) ==
    /\ started[s]
    /\ IF ~IsRegistered(s, student_name)
       THEN /\ last' = Outcome("signup_parent:not registered", s, student_name, FALSE, 0)
            /\ UNCHANGED <<fsVars, started, complaintVars, authVars, clock, ghostVars>>
       ELSE LET parent_id == student_name IN
            IF parent_id \in DOMAIN user_db[s]
            THEN /\ last' = Outcome("signup_parent:already exists", s, student_name, FALSE, 0)
                 /\ UNCHANGED <<fsVars, started, complaintVars, authVars, clock, ghostVars>>
            ELSE /\ clock < MaxClock
                 /\ LET user_data == [password_hash |-> hash_password(password),
                                      role |-> "parent",
                                      name |-> student_name \o " parent",
                                      student_name |-> student_name,
                                      created_at |-> clock]
                    IN /\ user_db' = [user_db EXCEPT ![s] = Put(@, parent_id, user_data)]
                       /\ fs_users' = save_user(parent_id, user_data, up)
                 /\ clock' = clock + 1
                 /\ last' = Outcome("signup_parent", s, student_name, TRUE, 1)
                 /\ UNCHANGED <<fs_complaints, fs_registry, fs_codes, started,
                                complaintVars, student_registry, teacher_db,
                                teacher_codes, current_user, ghostVars>>

\* current_user as login builds it ('permissions', read nowhere, is left out);
\* is_logged_in is current_user # NoUser: the two are always set together.
login(s, user_id, password) ==
    /\ started[s]
    /\ current_user[s] = NoUser
    /\ IF user_id \notin DOMAIN user_db[s]
       THEN /\ last' = Outcome("login:unknown user", s, user_id, FALSE, 0)
            /\ UNCHANGED current_user
       ELSE IF user_db[s][user_id].password_hash # hash_password(password)
       THEN /\ last' = Outcome("login:wrong password", s, user_id, FALSE, 0)
            /\ UNCHANGED current_user
       ELSE /\ current_user' = [current_user EXCEPT ![s] =
                    [id |-> user_id, name |-> user_db[s][user_id].name,
                     role |-> user_db[s][user_id].role]]
            /\ last' = Outcome("login", s, user_id, TRUE, 0)
    /\ UNCHANGED <<fsVars, started, complaintVars, user_db, student_registry,
                   teacher_db, teacher_codes, clock, ghostVars>>

logout(s) ==
    /\ started[s]
    /\ current_user[s] # NoUser
    /\ current_user' = [current_user EXCEPT ![s] = NoUser]
    /\ last' = Outcome("logout", s, None, TRUE, 0)
    /\ UNCHANGED <<fsVars, started, complaintVars, user_db, student_registry,
                   teacher_db, teacher_codes, clock, ghostVars>>

\* render_admin_management, tab "teacher category management": the logged-in
\* administrator picks a user of role teacher and saves its categories and
\* master flag.  teacher_db lives in the session only.
save_teacher_settings(s, selected_teacher, new_categories, is_master) ==
    /\ started[s]
    /\ current_user[s] # NoUser
    /\ current_user[s].role = "admin"
    /\ selected_teacher \in DOMAIN user_db[s]
    /\ user_db[s][selected_teacher].role = "teacher"
    /\ teacher_db' = [teacher_db EXCEPT ![s] =
            Put(@, selected_teacher,
                [categories |-> new_categories, is_master |-> is_master])]
    /\ last' = Outcome("save_teacher_settings", s, selected_teacher, TRUE, 0)
    /\ UNCHANGED <<fsVars, started, complaintVars, user_db, student_registry,
                   teacher_codes, current_user, clock, ghostVars>>

\* teacher_db.get(user_id, {}).get(field, default)
TeacherField(s, user_id, field, default) ==
    IF user_id \in DOMAIN teacher_db[s] THEN teacher_db[s][user_id][field] ELSE default

is_master_teacher_Mutant(s, user_id) == user_id = "admin"

is_master_teacher(s, user_id) ==
    IF user_id = "admin" THEN TRUE ELSE TeacherField(s, user_id, "is_master", FALSE)

\* list(complaints_db.values()), as a set.
all_complaints(s) == {complaints_db[s][k] : k \in DOMAIN complaints_db[s]}

\* Mutants of list_complaints: a parent is shown every complaint; a teacher
\* is shown every complaint.
list_complaints_ParentMutant(s, user) ==
    IF user.role \in {"admin", "parent"} THEN all_complaints(s)
    ELSE IF user.role = "teacher"
    THEN IF is_master_teacher(s, user.id) THEN all_complaints(s)
         ELSE {c \in all_complaints(s) :
                 c.category \in TeacherField(s, user.id, "categories", {})}
    ELSE {}

list_complaints_TeacherMutant(s, user) ==
    IF user.role \in {"admin", "teacher"} THEN all_complaints(s)
    ELSE IF user.role = "parent"
    THEN {c \in all_complaints(s) : c.created_by = user.id}
    ELSE {}

list_complaints(s, user) ==
    IF user.role = "admin" THEN all_complaints(s)
    ELSE IF user.role = "parent"
    THEN {c \in all_complaints(s) : c.created_by = user.id}
    ELSE IF user.role = "teacher"
    THEN IF is_master_teacher(s, user.id) THEN all_complaints(s)
         ELSE {c \in all_complaints(s) :
                 c.category \in TeacherField(s, user.id, "categories", {})}
    ELSE {}

\* ------------------------------------------------------ specifications
\* A read at the start of a session and a write of a complaint may raise; the
\* writes of the account operations succeed.

StartSession == \E s \in Sessions : \E ru, rr, rc, rp \in BOOLEAN : main(s, ru, rr, rc, rp)

CreateComplaint ==
    \E s \in Sessions, in \in CreateInputs, up \in BOOLEAN :
        create_complaint(s, in[1], in[2], in[3], in[4], in[5], up)

\* Complaint ids a caller may pass: each is unknown to a session until the
\* session has created or loaded it.
ComplaintIdInputs == {"1", "2"}

\* The arguments besides the id are not read when the id is unknown
\* (src/app.py:334-335), so one call stands for all of them.
UpdateStatus ==
    \E s \in Sessions, complaint_id \in ComplaintIdInputs :
        IF complaint_id \in DOMAIN complaints_db[s]
        THEN \E new_status \in Statuses, note \in NoteInputs, up \in BOOLEAN :
                update_complaint_status(s, complaint_id, new_status, note, up)
        ELSE update_complaint_status(s, complaint_id, "pending", "", TRUE)

\* update_complaint_status called with a new_status outside the enumeration.
UpdateStatusDirect ==
    \E s \in Sessions, complaint_id \in ComplaintIdInputs,
       new_status \in OtherStatusInputs, note \in NoteInputs, up \in BOOLEAN :
        /\ complaint_id \in DOMAIN complaints_db[s]
        /\ update_complaint_status(s, complaint_id, new_status, note, up)

GenerateTeacherCode ==
    \E s \in Sessions, code \in Codes : generate_teacher_code(s, code, TRUE)

SignupTeacher ==
    \E s \in Sessions, teacher_id \in TeacherIdInputs, code \in Codes :
        signup_teacher_with_code(s, teacher_id, SignupPassword, TeacherName,
                                 code, TRUE, TRUE)

AddStudent ==
    \E s \in Sessions, student_name \in StudentInputs :
        add_student_to_registry(s, student_name, TRUE)

SignupParent ==
    \E s \in Sessions, student_name \in ParentInputs :
        signup_parent(s, student_name, SignupPassword, TRUE)

Login == \E s \in Sessions, in \in LoginInputs : login(s, in[1], in[2])

\* The account calls that succeed: a rejected call changes no table.
AcceptedSignupTeacher ==
    \E s \in Sessions, teacher_id \in TeacherIdInputs, code \in Codes :
        /\ CodeIsActive(s, code)
        /\ ~IdExists(s, teacher_id)
        /\ signup_teacher_with_code(s, teacher_id, SignupPassword, TeacherName,
                                    code, TRUE, TRUE)

AcceptedSignupParent ==
    \E s \in Sessions, student_name \in ParentInputs :
        /\ IsRegistered(s, student_name)
        /\ student_name \notin DOMAIN user_db[s]
        /\ signup_parent(s, student_name, SignupPassword, TRUE)

AcceptedLogin ==
    \E s \in Sessions, in \in LoginInputs :
        /\ in[1] \in DOMAIN user_db[s]
        /\ user_db[s][in[1]].password_hash = hash_password(in[2])
        /\ login(s, in[1], in[2])

Logout == \E s \in Sessions : logout(s)

SaveTeacherSettings ==
    \E s \in Sessions, selected_teacher \in TeacherIdInputs,
       new_categories \in CategoryListInputs, is_master \in BOOLEAN :
        save_teacher_settings(s, selected_teacher, new_categories, is_master)

\* The complaint lifecycle engine, called by any number of sessions with the
\* statuses the presentation layer offers.
LifecycleNext == StartSession \/ CreateComplaint \/ UpdateStatus
SpecLifecycle == Init /\ [][LifecycleNext]_vars

\* The same, with direct callers that pass any string as new_status.
DirectNext == LifecycleNext \/ UpdateStatusDirect
SpecDirect == Init /\ [][DirectNext]_vars

\* The account operations, called by any number of sessions.
AuthNext ==
    StartSession \/ GenerateTeacherCode \/ SignupTeacher \/ AddStudent \/ SignupParent
SpecAuth == Init /\ [][AuthNext]_vars

\* The teacher signup alone: codes are issued and spent by any number of sessions.
TeacherNext == StartSession \/ GenerateTeacherCode \/ SignupTeacher
SpecTeacher == Init /\ [][TeacherNext]_vars

\* The parent signup alone: students are registered and parents sign up in any
\* number of sessions.
ParentNext == StartSession \/ AddStudent \/ SignupParent
SpecParent == Init /\ [][ParentNext]_vars

\* The same calls with a gateway that answers.
StartSessionOnline == \E s \in Sessions : main(s, TRUE, TRUE, TRUE, TRUE)

GenerateFirstCode == \E s \in Sessions : generate_teacher_code(s, "X", TRUE)

StoredComplaint ==
    \E s \in Sessions, in \in CreateInputs :
        create_complaint(s, in[1], in[2], in[3], in[4], in[5], TRUE)

\* A status update of a complaint the session holds, with a write that succeeds.
StoredUpdateStatus ==
    \E s \in Sessions, complaint_id \in ComplaintIdInputs,
       new_status \in Statuses, note \in NoteInputs :
        /\ complaint_id \in DOMAIN complaints_db[s]
        /\ update_complaint_status(s, complaint_id, new_status, note, TRUE)

\* The lifecycle engine on a gateway that answers: what is lost is lost by the
\* sessions' interleaving alone.
RaceNext == StartSessionOnline \/ StoredComplaint \/ StoredUpdateStatus
SpecRace == Init /\ [][RaceNext]_vars

\* The five writing operations on a gateway whose every write may raise.
OutageCreate ==
    \E s \in Sessions, up \in BOOLEAN :
        create_complaint(s, "t1", "c1", "academic", "urgent", "kim", up)

OutageUpdateStatus ==
    \E s \in Sessions, up \in BOOLEAN :
        /\ "1" \in DOMAIN complaints_db[s]
        /\ update_complaint_status(s, "1", "in_progress", "", up)

OutageGenerateTeacherCode ==
    \E s \in Sessions, code \in Codes, up \in BOOLEAN :
        generate_teacher_code(s, code, up)

OutageSignupTeacher ==
    \E s \in Sessions, code \in Codes, up1, up2 \in BOOLEAN :
        /\ CodeIsActive(s, code)
        /\ ~IdExists(s, "lee")
        /\ signup_teacher_with_code(s, "lee", SignupPassword, TeacherName, code,
                                    up1, up2)

OutageSignupParent ==
    \E s \in Sessions, up \in BOOLEAN :
        /\ IsRegistered(s, "kim")
        /\ "kim" \notin DOMAIN user_db[s]
        /\ signup_parent(s, "kim", SignupPassword, up)

OutageNext ==
    \/ StartSessionOnline \/ OutageCreate \/ OutageUpdateStatus
    \/ OutageGenerateTeacherCode \/ OutageSignupTeacher \/ OutageSignupParent
SpecOutage == Init /\ [][OutageNext]_vars

\* ------------------------------------------------ presentation layer
\* The state the program is in after session s1 has started on an empty store
\* and set up the accounts: signup_parent('kim'), the administrator's
\* generate_teacher_code giving X, signup_teacher_with_code('lee', X), all
\* writes succeeding, nobody logged in.  Time is counted from that moment, so
\* the three accounts carry earlier stamps.
SetupUsers ==
    [u \in {"kim", "lee"} |->
        IF u = "kim"
        THEN [password_hash |-> hash_password(SignupPassword), role |-> "parent",
              name |-> "kim parent", student_name |-> "kim", created_at |-> -2]
        ELSE [password_hash |-> hash_password(SignupPassword), role |-> "teacher",
              name |-> TeacherName, created_at |-> -1]]

InitUI ==
    /\ fs_users = SetupUsers
    /\ fs_complaints = EmptyMap
    /\ fs_registry = {}
    /\ fs_codes = {}
    /\ started = [s \in Sessions |-> s = "s1"]
    /\ complaints_db = [s \in Sessions |-> EmptyMap]
    /\ complaint_counter = [s \in Sessions |-> 1]
    /\ user_db = [s \in Sessions |->
            IF s = "s1"
            THEN [u \in {"admin", "kim", "lee"} |->
                    IF u = "admin"
                    THEN [password_hash |-> hash_password("admin123"),
                          role |-> "admin", name |-> "system administrator",
                          created_at |-> -2]
                    ELSE SetupUsers[u]]
            ELSE EmptyMap]
    /\ student_registry = [s \in Sessions |-> IF s = "s1" THEN DefaultRegistry ELSE {}]
    /\ teacher_db = [s \in Sessions |->
            IF s = "s1" THEN "lee" :> [categories |-> {}, is_master |-> FALSE]
            ELSE EmptyMap]
    /\ teacher_codes = [s \in Sessions |-> {}]
    /\ current_user = [s \in Sessions |-> NoUser]
    /\ clock = 0
    /\ last = Outcome("signup_teacher_with_code", "s1", <<"lee", "X">>, TRUE, 2)
    /\ returned_ids = <<>>
    /\ issued_codes = {"X"}
    /\ code_uses = [c \in Codes |-> IF c = "X" THEN 1 ELSE 0]

\* Credentials typed into the login form.
UILoginInputs ==
    { <<"admin", "admin123">>, <<"kim", SignupPassword>>, <<"lee", SignupPassword>> }

UILogin == \E s \in Sessions, in \in UILoginInputs : login(s, in[1], in[2])

\* The complaint form, shown to a logged-in parent; the complaint is created
\* under the parent's id.
UICreate ==
    \E s \in Sessions, in \in CreateInputs :
        /\ current_user[s] # NoUser
        /\ current_user[s].role = "parent"
        /\ create_complaint(s, in[1], in[2], in[3], in[4], current_user[s].id, TRUE)

\* Mutant: the control is shown to every role.
CanUpdate_AnyRole(user, complaint) == complaint.status # "resolved"

\* The condition of render_complaint_details under which the status control is shown.
CanUpdate(user, complaint) ==
    user.role \in {"teacher", "admin"} /\ complaint.status # "resolved"

\* The complaints whose details are rendered with render_complaint_details:
\* those list_complaints gives the user, not resolved, urgent or normal.
active_complaints(s, user) ==
    {c \in list_complaints(s, user) :
        c.status # "resolved" /\ c.urgency \in {"urgent", "normal"}}

\* The button "update status" of a rendered complaint.
UIUpdateStatus ==
    \E s \in Sessions :
        /\ started[s]
        /\ current_user[s] # NoUser
        /\ \E complaint \in active_complaints(s, current_user[s]) :
            /\ CanUpdate(current_user[s], complaint)
            /\ \E new_status \in Statuses, note \in NoteInputs :
                  update_complaint_status(s, complaint.id, new_status, note, TRUE)

UINext ==
    \/ StartSessionOnline \/ UILogin \/ Logout \/ SaveTeacherSettings
    \/ UICreate \/ UIUpdateStatus
SpecUI == InitUI /\ [][UINext]_vars

\* Accounts, teacher settings and complaints together: what list_complaints reads.
ViewNext ==
    \/ StartSessionOnline \/ GenerateFirstCode \/ AcceptedSignupTeacher
    \/ AcceptedSignupParent \/ AcceptedLogin \/ SaveTeacherSettings \/ StoredComplaint
SpecView == Init /\ [][ViewNext]_vars

\* Every operation, by any number of sessions.  The specifications above are
\* its restrictions to the operations a group of properties depends on.
Next ==
    \/ StartSession \/ CreateComplaint \/ UpdateStatus \/ UpdateStatusDirect
    \/ GenerateTeacherCode \/ SignupTeacher \/ AddStudent \/ SignupParent
    \/ Login \/ Logout \/ SaveTeacherSettings
Spec == Init /\ [][Next]_vars

\* ================================================================ claims
IsPrefix(h1, h2) == Len(h1) <= Len(h2) /\ SubSeq(h2, 1, Len(h1)) = h1
Last(h) == h[Len(h)]
AllButLast == <<fsVars, started, complaintVars, authVars, clock, ghostVars>>
\* current_user as login would build it for user u of session s.
AsUser(s, u) == [id |-> u, name |-> user_db[s][u].name, role |-> user_db[s][u].role]

\* C1: every create returns an id strictly greater than every id returned
\* before it, in whichever session; no id is handed out twice.
C1_IdsStrictlyIncreasing ==
    \A i, j \in 1..Len(returned_ids) :
        i < j => int(returned_ids[i]) < int(returned_ids[j])

\* C2: every complaint, in each session's collection and in the store, has a
\* non-empty history that starts with the creation entry of status pending and
\* ends with an entry whose status is the complaint's status.
HistoryMatchesStatus(c) ==
    /\ Len(c.history) >= 1
    /\ c.history[1].status = "pending"
    /\ c.history[1].note = "complaint created"
    /\ Last(c.history).status = c.status

C2_HistoryMatchesStatus ==
    /\ \A s \in Sessions : \A k \in DOMAIN complaints_db[s] :
            HistoryMatchesStatus(complaints_db[s][k])
    /\ \A k \in DOMAIN fs_complaints : HistoryMatchesStatus(fs_complaints[k])

C2_Witness ==
    \E s \in Sessions : \E k \in DOMAIN complaints_db[s] :
        /\ Len(complaints_db[s][k].history) = 3
        /\ complaints_db[s][k].status = "resolved"
        /\ k \in DOMAIN fs_complaints
        /\ fs_complaints[k].history = complaints_db[s][k].history

\* C3: in every session, every step keeps each complaint the session has and
\* keeps its history as a prefix of the new one; a successful
\* update_complaint_status lengthens the target's history by exactly one entry.
C3_HistoryAppendOnly ==
    [][\A s \in Sessions : \A k \in DOMAIN complaints_db[s] :
          /\ k \in DOMAIN complaints_db'[s]
          /\ IsPrefix(complaints_db[s][k].history, complaints_db'[s][k].history)
          /\ (last'.op = "update_complaint_status" /\ last'.ok
              /\ last'.session = s /\ last'.key = k)
             => Len(complaints_db'[s][k].history) = Len(complaints_db[s][k].history) + 1
      ]_vars

\* C4: a parent is shown exactly the complaints created_by the parent's id.
C4_ParentSeesOwn ==
    \A s \in Sessions : \A u \in DOMAIN user_db[s] :
        user_db[s][u].role = "parent" =>
            \A k \in DOMAIN complaints_db[s] :
                /\ list_complaints(s, AsUser(s, u)) \subseteq all_complaints(s)
                /\ complaints_db[s][k] \in list_complaints(s, AsUser(s, u))
                    <=> complaints_db[s][k].created_by = u

C4_Witness ==
    \E s \in Sessions : \E u \in DOMAIN user_db[s] :
        /\ user_db[s][u].role = "parent"
        /\ \E k1, k2 \in DOMAIN complaints_db[s] :
            /\ complaints_db[s][k1].created_by = u
            /\ complaints_db[s][k2].created_by # u

\* C5: a teacher who is not a master teacher is shown exactly the complaints
\* whose category is in the teacher's assigned categories, and none when the
\* teacher has no assignment record or no category.
Assigned(s, u) ==
    IF u \in DOMAIN teacher_db[s] THEN teacher_db[s][u].categories ELSE {}

OrdinaryTeacher(s, u) ==
    /\ user_db[s][u].role = "teacher"
    /\ u # "admin"
    /\ ~(u \in DOMAIN teacher_db[s] /\ teacher_db[s][u].is_master)

C5_TeacherSeesAssigned ==
    \A s \in Sessions : \A u \in DOMAIN user_db[s] :
        OrdinaryTeacher(s, u) =>
            /\ list_complaints(s, AsUser(s, u)) \subseteq all_complaints(s)
            /\ \A k \in DOMAIN complaints_db[s] :
                 complaints_db[s][k] \in list_complaints(s, AsUser(s, u))
                    <=> complaints_db[s][k].category \in Assigned(s, u)
            /\ Assigned(s, u) = {} => list_complaints(s, AsUser(s, u)) = {}

\* One session holds a teacher with categories, a complaint inside and one
\* outside them; another holds the same teacher with no assignment record.
C5_Witness ==
    \E s1, s2 \in Sessions : \E u \in DOMAIN user_db[s1] \cap DOMAIN user_db[s2] :
        /\ OrdinaryTeacher(s1, u) /\ OrdinaryTeacher(s2, u)
        /\ Assigned(s1, u) = {"meal", "health"}
        /\ \E k1, k2 \in DOMAIN complaints_db[s1] :
            /\ complaints_db[s1][k1].category = "academic"
            /\ complaints_db[s1][k2].category = "meal"
        /\ u \notin DOMAIN teacher_db[s2]
        /\ complaints_db[s2] # EmptyMap

\* C6: a user of role admin, and a teacher whose record has the master flag or
\* whose id is 'admin', is shown every complaint; is_master_teacher is FALSE
\* for an id without an assignment record.
C6_AdminAndMasterSeeAll ==
    \A s \in Sessions :
        /\ \A u \in DOMAIN user_db[s] :
            /\ user_db[s][u].role = "admin"
                => list_complaints(s, AsUser(s, u)) = all_complaints(s)
            /\ (/\ user_db[s][u].role = "teacher"
                /\ \/ u = "admin"
                   \/ u \in DOMAIN teacher_db[s] /\ teacher_db[s][u].is_master)
                => list_complaints(s, AsUser(s, u)) = all_complaints(s)
        /\ \A u \in Ids :
            (u \notin DOMAIN teacher_db[s] /\ u # "admin") => ~is_master_teacher(s, u)

C6_Witness ==
    \E s \in Sessions : \E u \in DOMAIN user_db[s] :
        /\ user_db[s][u].role = "teacher"
        /\ u \in DOMAIN teacher_db[s]
        /\ teacher_db[s][u].is_master
        /\ teacher_db[s][u].categories = {}
        /\ Cardinality(all_complaints(s)) = 2

\* C7: update_complaint_status on an id that is not in the session's
\* collection returns False, attempts no write and changes nothing.
C7_UnknownIdChangesNothing ==
    [][(/\ last'.op = "update_complaint_status"
        /\ last'.key \notin DOMAIN complaints_db[last'.session])
       => /\ ~last'.ok
          /\ last'.writes = 0
          /\ UNCHANGED AllButLast
      ]_vars

C7_Witness ==
    /\ last.op = "update_complaint_status"
    /\ ~last.ok
    /\ complaints_db[last.session] # EmptyMap
    /\ fs_complaints # EmptyMap

\* C8: the status of every complaint and of every history entry is one of the
\* three enumerated statuses.
StatusesEnumerated(c) ==
    /\ c.status \in Statuses
    /\ \A i \in 1..Len(c.history) : c.history[i].status \in Statuses

C8_StatusesEnumerated ==
    /\ \A s \in Sessions : \A k \in DOMAIN complaints_db[s] :
            StatusesEnumerated(complaints_db[s][k])
    /\ \A k \in DOMAIN fs_complaints : StatusesEnumerated(fs_complaints[k])

\* C9: signup_parent fails on a name that is not in the session's registry and
\* on a name that is already a user of the session, leaving the user tables as
\* they are; when it succeeds it adds exactly the user named student_name,
\* with role parent.
SignupParentOps ==
    {"signup_parent", "signup_parent:not registered", "signup_parent:already exists"}

C9_SignupParent ==
    [][last'.op \in SignupParentOps =>
        LET s == last'.session
            n == last'.key
        IN /\ n \notin student_registry[s]
                => last'.op = "signup_parent:not registered" /\ ~last'.ok
           /\ n \in DOMAIN user_db[s] => ~last'.ok
           /\ (n \in student_registry[s] /\ n \in DOMAIN user_db[s])
                => last'.op = "signup_parent:already exists"
           /\ ~last'.ok => UNCHANGED AllButLast
           /\ last'.ok =>
                /\ n \notin DOMAIN user_db[s]
                /\ DOMAIN user_db'[s] = DOMAIN user_db[s] \cup {n}
                /\ user_db'[s][n].role = "parent"
                /\ \A u \in DOMAIN user_db[s] : user_db'[s][u] = user_db[s][u]
                /\ \A s2 \in Sessions \ {s} : user_db'[s2] = user_db[s2]
      ]_vars

\* A second signup for a student whose parent account exists has just failed.
C9_Witness ==
    /\ last.op = "signup_parent:already exists"
    /\ user_db[last.session][last.key].role = "parent"

\* C10: no code is consumed by more than one successful
\* signup_teacher_with_code, over all sessions.
C10_CodeSingleUse == \A c \in Codes : code_uses[c] <= 1

\* C11: signup_teacher_with_code with an inactive code fails as "invalid code"
\* whether or not the id exists; with an active code and an id that is already
\* a user it fails as "id exists"; either failure attempts no write and
\* changes nothing: the user's record, the assignment records and the active
\* codes stay as they are.  The code leaves the active set of the session only
\* by a successful signup.
SignupTeacherOps ==
    {"signup_teacher_with_code", "signup_teacher_with_code:invalid code",
     "signup_teacher_with_code:id exists"}

C11_ExistingIdChangesNothing ==
    [][last'.op \in SignupTeacherOps =>
        LET s == last'.session
            teacher_id == last'.key[1]
            code == last'.key[2]
        IN /\ code \notin teacher_codes[s]
                => last'.op = "signup_teacher_with_code:invalid code"
           /\ (code \in teacher_codes[s] /\ teacher_id \in DOMAIN user_db[s])
                => last'.op = "signup_teacher_with_code:id exists"
           /\ last'.op # "signup_teacher_with_code"
                => /\ ~last'.ok
                   /\ last'.writes = 0
                   /\ UNCHANGED AllButLast
           /\ last'.op = "signup_teacher_with_code"
                => /\ last'.ok
                   /\ teacher_id \notin DOMAIN user_db[s]
                   /\ teacher_codes'[s] = teacher_codes[s] \ {code}
      ]_vars

\* A signup with an active code for the id of the administrator has just failed.
C11_Witness ==
    /\ last.op = "signup_teacher_with_code:id exists"
    /\ last.key[2] \in teacher_codes[last.session]
    /\ user_db[last.session][last.key[1]].role = "admin"

\* C12: a successful update_complaint_status changes, of the session's tables
\* and of the store, only the status and the history of its target: the
\* target's other fields, every other complaint, the user table, the registry,
\* the assignments, the codes and the id counter are unchanged; and no step
\* whatever changes the category or the created_at of a complaint that exists.
FrameFields ==
    {"id", "title", "content", "category", "urgency", "urgency_value",
     "created_by", "created_at", "assigned_to"}

\* Collection d2 differs from d1 at most in the status and history of k.
OnlyStatusAndHistory(d1, d2, k) ==
    /\ DOMAIN d2 = DOMAIN d1
    /\ \A j \in DOMAIN d1 \ {k} : d2[j] = d1[j]
    /\ k \in DOMAIN d1 => \A f \in FrameFields : d2[k][f] = d1[k][f]

UpdateFrame ==
    (last'.op = "update_complaint_status" /\ last'.ok) =>
        LET s == last'.session
            k == last'.key
        IN /\ OnlyStatusAndHistory(complaints_db[s], complaints_db'[s], k)
           /\ \A s2 \in Sessions \ {s} : complaints_db'[s2] = complaints_db[s2]
           /\ OnlyStatusAndHistory(fs_complaints, fs_complaints', k)
           /\ UNCHANGED <<fs_users, fs_registry, fs_codes, started,
                          complaint_counter, authVars, ghostVars>>

Immutable(d1, d2) ==
    \A k \in DOMAIN d1 :
        /\ k \in DOMAIN d2
        /\ d2[k].category = d1[k].category
        /\ d2[k].created_at = d1[k].created_at

C12_UpdateFrame ==
    [][/\ UpdateFrame
       /\ \A s \in Sessions : Immutable(complaints_db[s], complaints_db'[s])
       /\ Immutable(fs_complaints, fs_complaints')
      ]_vars

\* C16: no transition is forbidden.  For every complaint a session holds and
\* every status t of the three, whatever the complaint's status is,
\* update_complaint_status(id, t) can be called, and every such call returns
\* True and leaves the complaint with status t.
C16_NoTransitionForbidden ==
    /\ [](\A s \in Sessions : \A k \in DOMAIN complaints_db[s] : \A t \in Statuses :
            clock < MaxClock => ENABLED update_complaint_status(s, k, t, "", TRUE))
    /\ [][\A s \in Sessions : \A k \in DOMAIN complaints_db[s] :
           \A t \in Statuses, note \in NoteInputs, up \in BOOLEAN :
              update_complaint_status(s, k, t, note, up)
                => /\ last'.ok
                   /\ complaints_db'[s][k].status = t
                   /\ Last(complaints_db'[s][k].history).status = t
          ]_vars

\* A complaint went from pending to resolved and back to pending.
C16_Witness ==
    \E s \in Sessions : \E k \in DOMAIN complaints_db[s] :
        LET h == complaints_db[s][k].history
        IN /\ Len(h) = 3
           /\ h[2].status = "resolved"
           /\ h[3].status = "pending"
           /\ complaints_db[s][k].status = "pending"
           /\ last.op = "update_complaint_status" /\ last.ok /\ last.key = k

\* C13: status updates are written back whole, last writer wins.  After every
\* update_complaint_status whose write succeeds, the stored status and history
\* of the complaint are those of the calling session's copy, whatever the
\* store held before; so two sessions that each hold a copy can reach a state
\* where the stored history is the last writer's and lacks the entry the
\* other session appended and wrote (C13_Witness).
C13_LastWriteWins ==
    [][(last'.op = "update_complaint_status" /\ last'.ok) =>
        LET s == last'.session
            k == last'.key
        IN /\ k \in DOMAIN fs_complaints'
           /\ fs_complaints'[k].status = complaints_db'[s][k].status
           /\ fs_complaints'[k].history = complaints_db'[s][k].history
      ]_vars

\* Entries of a history.
Entries(h) == {h[i] : i \in 1..Len(h)}

\* Both sessions updated their copy of one complaint, every write succeeded,
\* and the store holds the history of the session that wrote last, without the
\* entry the other session appended.
C13_Witness ==
    \E s1, s2 \in Sessions : \E k \in DOMAIN fs_complaints :
        /\ s1 # s2
        /\ k \in DOMAIN complaints_db[s1] \cap DOMAIN complaints_db[s2]
        /\ Len(complaints_db[s1][k].history) = 2
        /\ Len(complaints_db[s2][k].history) = 2
        /\ complaints_db[s1][k].history[1] = complaints_db[s2][k].history[1]
        /\ complaints_db[s1][k].history[2].timestamp
                < complaints_db[s2][k].history[2].timestamp
        /\ fs_complaints[k].history = complaints_db[s2][k].history
        /\ complaints_db[s1][k].history[2] \notin Entries(fs_complaints[k].history)

\* C14: a failed gateway write aborts nothing.  Each of create_complaint,
\* update_complaint_status, generate_teacher_code, signup_teacher_with_code and
\* signup_parent, once past its checks, returns success and applies its whole
\* effect to the session's tables whether or not its write succeeds; it
\* attempts each write once, and the store is left either as it was or with
\* what the session sent.  What a session holds it keeps holding.
WroteOrNot(before, after, sent) == after = before \/ after = sent

CreateEffect(s, k) ==
    /\ last'.ok /\ last'.writes = 1
    /\ k \in DOMAIN complaints_db'[s]
    /\ complaints_db'[s][k].status = "pending"
    /\ complaints_db'[s][k].created_at = clock
    /\ Len(complaints_db'[s][k].history) = 1
    /\ complaint_counter'[s] = complaint_counter[s] + 1
    /\ WroteOrNot(fs_complaints, fs_complaints',
                  Put(fs_complaints, k, complaints_db'[s][k]))

UpdateEffect(s, k) ==
    /\ last'.writes = 1
    /\ Len(complaints_db'[s][k].history) = Len(complaints_db[s][k].history) + 1
    /\ IsPrefix(complaints_db[s][k].history, complaints_db'[s][k].history)
    /\ Last(complaints_db'[s][k].history).status = complaints_db'[s][k].status
    /\ Last(complaints_db'[s][k].history).timestamp = clock
    /\ \/ fs_complaints' = fs_complaints
       \/ /\ k \in DOMAIN fs_complaints
          /\ fs_complaints' = [fs_complaints EXCEPT ![k] =
                [@ EXCEPT !.status = complaints_db'[s][k].status,
                          !.history = complaints_db'[s][k].history]]

GenerateEffect(s, code) ==
    /\ last'.ok /\ last'.writes = 1
    /\ teacher_codes'[s] = teacher_codes[s] \cup {code}
    /\ WroteOrNot(fs_codes, fs_codes', teacher_codes'[s])

SignupTeacherEffect(s, teacher_id, code) ==
    /\ last'.ok /\ last'.writes = 2
    /\ teacher_id \in DOMAIN user_db'[s]
    /\ user_db'[s][teacher_id].role = "teacher"
    /\ teacher_id \in DOMAIN teacher_db'[s]
    /\ teacher_db'[s][teacher_id] = [categories |-> {}, is_master |-> FALSE]
    /\ teacher_codes'[s] = teacher_codes[s] \ {code}
    /\ WroteOrNot(fs_users, fs_users', Put(fs_users, teacher_id, user_db'[s][teacher_id]))
    /\ WroteOrNot(fs_codes, fs_codes', teacher_codes'[s])

SignupParentEffect(s, parent_id) ==
    /\ last'.ok /\ last'.writes = 1
    /\ parent_id \in DOMAIN user_db'[s]
    /\ user_db'[s][parent_id].role = "parent"
    /\ WroteOrNot(fs_users, fs_users', Put(fs_users, parent_id, user_db'[s][parent_id]))

EffectApplied ==
    LET s == last'.session
        k == last'.key
    IN /\ last'.op = "create_complaint" => CreateEffect(s, k)
       /\ (last'.op = "update_complaint_status" /\ k \in DOMAIN complaints_db[s])
            => last'.ok /\ UpdateEffect(s, k)
       /\ last'.op = "generate_teacher_code" => GenerateEffect(s, k)
       /\ last'.op = "signup_teacher_with_code" => SignupTeacherEffect(s, k[1], k[2])
       /\ last'.op = "signup_parent" => SignupParentEffect(s, k)

\* The session's tables go on serving what they hold.
SessionKeeps ==
    \A s \in Sessions :
        /\ DOMAIN complaints_db[s] \subseteq DOMAIN complaints_db'[s]
        /\ DOMAIN user_db[s] \subseteq DOMAIN user_db'[s]

\* No operation of a session creates, later, the document of a complaint or
\* of a user of the session that the store is without.
NotRetried ==
    LET s == last'.session
    IN s \in Sessions =>
        /\ \A k \in DOMAIN complaints_db[s] \ DOMAIN fs_complaints :
                k \notin DOMAIN fs_complaints'
        /\ \A u \in DOMAIN user_db[s] \ DOMAIN fs_users :
                u \notin DOMAIN fs_users'

\* While session s is the only one running, what s holds and the store is
\* without is what s failed to write.
OnlyStarted(s) == started[s] /\ \A s2 \in Sessions \ {s} : ~started[s2]

\* A history entry or a code whose write failed stays out of the store.
StaysWithout ==
    \A s \in Sessions : OnlyStarted(s) =>
        /\ \A c \in teacher_codes[s] \ fs_codes : c \notin fs_codes'
        /\ \A k \in DOMAIN complaints_db[s] \cap DOMAIN fs_complaints :
             \A e \in Entries(complaints_db[s][k].history)
                        \ Entries(fs_complaints[k].history) :
                e \notin Entries(fs_complaints'[k].history)

C18_AdminIsAdministrator ==
    \A s \in Sessions : started[s] =>
        /\ "admin" \in DOMAIN user_db[s]
        /\ user_db[s]["admin"].role = "admin"
        /\ \A u \in DOMAIN user_db[s] :
              (user_db[s][u].role = "teacher" /\ is_master_teacher(s, u))
                => (u \in DOMAIN teacher_db[s] /\ teacher_db[s][u].is_master)

\* C15: every update_complaint_status the presentation layer makes is made in
\* a session whose logged-in user has role teacher or admin, on a complaint
\* the session holds, and, when the user is a teacher for whom
\* is_master_teacher does not hold, on a complaint whose category is among
\* the teacher's assigned categories; never by a parent.
C15_UpdateIsGated ==
    [][last'.op = "update_complaint_status" =>
        LET s == last'.session
            k == last'.key
            user == current_user[s]
        IN /\ user # NoUser
           /\ user.role \in {"teacher", "admin"}
           /\ user.role # "parent"
           /\ k \in DOMAIN complaints_db[s]
           /\ (user.role = "teacher" /\ ~is_master_teacher(s, user.id))
                => complaints_db[s][k].category \in Assigned(s, user.id)
      ]_vars

\* A teacher without the master flag, assigned meal and health, has just
\* updated a meal complaint, while the session also holds an academic
\* complaint the teacher is not shown.
C15_Witness ==
    LET s == last.session
        user == current_user[s]
    IN /\ last.op = "update_complaint_status" /\ last.ok
       /\ user # NoUser
       /\ user.role = "teacher"
       /\ ~is_master_teacher(s, user.id)
       /\ Assigned(s, user.id) = {"meal", "health"}
       /\ complaints_db[s][last.key].category = "meal"
       /\ \E k \in DOMAIN complaints_db[s] :
            /\ complaints_db[s][k].category = "academic"
            /\ complaints_db[s][k] \notin list_complaints(s, user)

\* C17: once a complaint is resolved in a session, no step changes its status
\* or its history in that session, and no update_complaint_status of that
\* session is made on it.
C17_ResolvedIsAbsorbing ==
    [][\A s \in Sessions : \A k \in DOMAIN complaints_db[s] :
          complaints_db[s][k].status = "resolved" =>
            /\ k \in DOMAIN complaints_db'[s]
            /\ complaints_db'[s][k].status = "resolved"
            /\ complaints_db'[s][k].history = complaints_db[s][k].history
            /\ ~(/\ last'.op = "update_complaint_status"
                 /\ last'.session = s /\ last'.key = k)
      ]_vars

====
